---- MODULE Spec2Model ----
(***************************************************************************)
(* face-stabilizer: the Procrustes alignment of stabilizer/src/lib.rs and  *)
(* the three commands of src/main.rs (Stabilize, ExtractFeatures,          *)
(* Transform) as a state machine over the file system they act on.         *)
(*                                                                         *)
(* Floating point: landmark coordinates are small integers, so the casts   *)
(* `x as f32` are exact.  f32 values are modelled by exact arithmetic      *)
(* (fractions over a common denominator, the scaling factor by its         *)
(* square) together with the IEEE special values the code can produce:     *)
(* 0/0 = NaN and x/0 = +-inf.  Rounding is not modelled.                   *)
(***************************************************************************)
EXTENDS Integers, Sequences, FiniteSets, TLC

\* ------------------------------------------------------------------------
\* Bounds of the model
\* ------------------------------------------------------------------------
\* longest point sequence given to the Shape Aligner in SpecAligner
MaxLen == 2
\* coordinates of those points range over 0..MaxCoord
MaxCoord == 1
\* number of image files in the source directory / keys of the feature file
MaxImages == 3
\* threads of the rayon pool
NumWorkers == 2

\* ------------------------------------------------------------------------
\* Option<T>
\* ------------------------------------------------------------------------
None == <<>>
Some(v) == <<v>>
Unwrap(o) == o[1]

\* ------------------------------------------------------------------------
\* glam::Vec2 over f32.  A finite vector is (x/d, y/d) / sqrt(sn/sd);
\* nan marks a vector whose two components are NaN.
\* ------------------------------------------------------------------------
Vec2(x, y) == [x |-> x, y |-> y, d |-> 1, sn |-> 1, sd |-> 1, nan |-> FALSE]
NaNVec == [x |-> 0, y |-> 0, d |-> 1, sn |-> 1, sd |-> 1, nan |-> TRUE]

\* |(x as f32, y as f32).into()| of apply_projection
ToVec2(points) == [i \in 1..Len(points) |-> Vec2(points[i][1], points[i][2])]

Abs(n) == IF n < 0 THEN -n ELSE n

RECURSIVE Gcd(_, _)
Gcd(a, b) == IF b = 0 THEN a ELSE Gcd(b, a % b)

GetX(p) == p.x
GetY(p) == p.y
LengthSquared(p) == p.x * p.x + p.y * p.y

RECURSIVE SumX(_, _)
\* sum of the x components of points[1..n]
SumX(points, n) ==
    IF n = 0 THEN 0 ELSE GetX(points[n]) + SumX(points, n - 1)

RECURSIVE SumY(_, _)
\* sum of the y components of points[1..n]
SumY(points, n) ==
    IF n = 0 THEN 0 ELSE GetY(points[n]) + SumY(points, n - 1)

RECURSIVE SumLengthSquared(_, _)
\* sum of length_squared over points[1..n]
SumLengthSquared(points, n) ==
    IF n = 0 THEN 0
    ELSE LengthSquared(points[n]) + SumLengthSquared(points, n - 1)

AnyNaN(points) == \E i \in 1..Len(points) : points[i].nan

\* centroid: None if empty, else the mean.  The points of one slice share
\* their denominator d, so the mean is (sum x, sum y) over d * len.
centroid(points) ==
    IF points = <<>> THEN None
    ELSE IF AnyNaN(points) THEN Some(NaNVec)
    ELSE Some([x |-> SumX(points, Len(points)),
               y |-> SumY(points, Len(points)),
               d |-> points[1].d * Len(points),
               sn |-> points[1].sn, sd |-> points[1].sd, nan |-> FALSE])

\* center: `*point -= c` for every point; returns the centroid and the
\* slice as it is left in place.
center(points) ==
    LET c == centroid(points)
        n == Len(points)
    IN  IF c = None THEN [ret |-> None, points |-> points]
        ELSE IF Unwrap(c).nan
             THEN [ret |-> c, points |-> [i \in 1..n |-> NaNVec]]
        ELSE [ret |-> c,
              points |-> [i \in 1..n |->
                  [points[i] EXCEPT !.x = n * points[i].x - Unwrap(c).x,
                                    !.y = n * points[i].y - Unwrap(c).y,
                                    !.d = Unwrap(c).d]]]

\* An f32 scalar that is sqrt(n/d), or NaN.
SqrtOf(n, d) == [n |-> n, d |-> d, nan |-> FALSE]
NaNScalar == [n |-> 0, d |-> 1, nan |-> TRUE]
IsZero(s) == ~s.nan /\ s.n = 0

\* scaling_factor: sqrt(sum ||p||^2 / len); None if empty
scaling_factor(points) ==
    IF points = <<>> THEN None
    ELSE IF AnyNaN(points) THEN Some(NaNScalar)
    ELSE LET ss == SumLengthSquared(points, Len(points))
             dd == points[1].d * points[1].d * Len(points)
             g  == Gcd(ss, dd)
         IN  Some(SqrtOf(ss \div g, dd \div g))

\* scale: `*point /= s` for every point; returns the factor and the slice as
\* it is left in place.  A factor of 0 is not tested for: every centered
\* point is then (0, 0) and 0.0 / 0.0 leaves NaN in both components.
scale(points) ==
    LET s == scaling_factor(points)
        n == Len(points)
    IN  IF s = None THEN [ret |-> None, points |-> points]
        ELSE IF Unwrap(s).nan \/ IsZero(Unwrap(s))
             THEN [ret |-> s, points |-> [i \in 1..n |-> NaNVec]]
        ELSE [ret |-> s,
              points |-> [i \in 1..n |->
                  [points[i] EXCEPT !.sn = points[i].sn * Unwrap(s).n,
                                    !.sd = points[i].sd * Unwrap(s).d]]]

\* An angle (top / bot).atan(), kept as the reduced fraction top/bot:
\* den = 0 with num = +-1 is atan(+-inf) = +-pi/2, and 0/0 is NaN.
NaNAngle == [num |-> 0, den |-> 0]
Atan(top, bot) ==
    IF bot = 0
    THEN IF top = 0 THEN NaNAngle
         ELSE [num |-> IF top < 0 THEN -1 ELSE 1, den |-> 0]
    ELSE LET g == Gcd(Abs(top), Abs(bot))
             sgn == IF bot < 0 THEN -1 ELSE 1
         IN  [num |-> (sgn * top) \div g, den |-> Abs(bot) \div g]

MinLen(a, b) == IF Len(a) < Len(b) THEN Len(a) ELSE Len(b)

Cross(p, r) == p.x * r.y - p.y * r.x
Dot(p, r) == p.x * r.x + p.y * r.y

RECURSIVE SumCross(_, _, _)
\* sum of p.x * r.y - p.y * r.x over the zipped prefix of length n
SumCross(points, reference, n) ==
    IF n = 0 THEN 0
    ELSE Cross(points[n], reference[n]) + SumCross(points, reference, n - 1)

RECURSIVE SumDot(_, _, _)
\* sum of p.x * r.x + p.y * r.y over the zipped prefix of length n
SumDot(points, reference, n) ==
    IF n = 0 THEN 0
    ELSE Dot(points[n], reference[n]) + SumDot(points, reference, n - 1)

\* the two sums and the atan of rotation; the points of each slice share
\* one positive divisor, which cancels in top / bot
RotationAngle(reference, points) ==
    IF AnyNaN(points) \/ AnyNaN(reference) THEN NaNAngle
    ELSE Atan(SumCross(points, reference, MinLen(points, reference)),
              SumDot(points, reference, MinLen(points, reference)))

\* a rotation that forgets the length test: zip stops at the shorter slice
rotation_unchecked(reference, points) ==
    IF points = <<>> THEN None ELSE Some(RotationAngle(reference, points))

\* rotation: None if points is empty or the lengths differ
rotation(reference, points) ==
    IF points = <<>> \/ Len(points) # Len(reference) THEN None
    ELSE Some(RotationAngle(reference, points))

\* imageproc Projection built by procrustes_superimposition:
\* translate(-pt) . scale(1/ps) . rotate(theta) . scale(ts) . translate(tt)
Projection(pt, ps, theta, ts, tt) ==
    [pt |-> pt, ps |-> ps, theta |-> theta, ts |-> ts, tt |-> tt]

\* procrustes_superimposition over the two slices, each `?` an early None
procrustes_superimposition(target, points) ==
    LET ct == center(target) IN
    IF ct.ret = None THEN None ELSE
    LET cp == center(points) IN
    IF cp.ret = None THEN None ELSE
    LET st == scale(ct.points) IN
    IF st.ret = None THEN None ELSE
    LET sp == scale(cp.points) IN
    IF sp.ret = None THEN None ELSE
    LET theta == rotation(st.points, sp.points) IN
    IF theta = None THEN None ELSE
    Some(Projection(Unwrap(cp.ret), Unwrap(sp.ret), Unwrap(theta),
                    Unwrap(st.ret), Unwrap(ct.ret)))

\* apply_projection: the landmarks of both faces as Vec2, then
\* procrustes_superimposition(..).expect(..): None is a panic of the worker
apply_projection(target, points) ==
    procrustes_superimposition(ToVec2(target), ToVec2(points))

\* ------------------------------------------------------------------------
\* Landmarks the detector / the feature file can deliver for one face
\* ------------------------------------------------------------------------
LmRef == << <<0, 0>>, <<4, 0>>, <<4, 4>>, <<0, 4>>, <<2, 1>> >>
LmOther == << <<1, 1>>, <<3, 1>>, <<4, 4>>, <<1, 3>>, <<2, 2>> >>
LmShort == << <<0, 0>>, <<4, 0>>, <<4, 4>>, <<0, 4>> >>
LmFlat == << <<2, 2>>, <<2, 2>>, <<2, 2>>, <<2, 2>>, <<2, 2>> >>
LmEmpty == << >>

\* Faces: the faces of one image, each face given by its landmarks
FaceChoices ==
    { << >>, <<LmRef>>, <<LmOther>>, <<LmRef, LmOther>>,
      <<LmShort>>, <<LmFlat>>, <<LmEmpty>> }

\* ------------------------------------------------------------------------
\* State
\* ------------------------------------------------------------------------
VARIABLES
    command,      \* Actions: "Stabilize", "ExtractFeatures", "Transform"
    detector,     \* "fast", "cnn" (use_cnn_detector with face_detector),
                  \* "cnn_nopath" (use_cnn_detector without face_detector)
    num_images,   \* regular files in image_dir / keys of the feature file,
                  \* named 1..num_images in sorted order
    pc,           \* position of Opts::run
    result,       \* "running", "ok", "error" (Err returned), "panic"
    err,          \* what made run return Err
    output,       \* the output feature file: "absent", "old", "created"
                  \* (truncated, empty), "written"
    backup,       \* the backup file: "absent", "old" (the renamed output)
    out_dir,      \* output_dir: "absent", "dir", "file"
    out_files,    \* image name -> file of that name written in output_dir
    faces,        \* image name -> Option<Faces> seen by the run
    base,         \* name of the reference image, 0 before it is chosen
    origin,       \* Option<Landmarks> of the reference face
    pending,      \* items of maybe_parallel not yet given to f
    outcome,      \* image name -> what f did with it
    features,     \* names collected into the BTreeMap of Features
    a_pc,         \* Shape Aligner harness: "off", "input", "scaled", "done"
    a_target,     \* its target points
    a_points,     \* its source points
    a_scale,      \* Option<f32> returned by scale on the centered points
    a_result,     \* Option<Projection> of procrustes_superimposition
    p_pc,         \* maybe_parallel harness: "off", "run", "done"
    p_fate,       \* item -> what f does with it: "written" (Some(Ok)),
                  \* "skipped" (None), "open_error" (Some(Err))
    workers,      \* pool thread -> the item it is running f on and where
                  \* in f it is
    c_pc,         \* feature file harness: "off", "map", "encoded", "decoded"
    c_map,        \* the Features value given to serde_json
    c_ok,         \* Result of to_writer: "none" before, "ok", "error"
    c_text,       \* the characters in the feature file
    c_decoded     \* Option<Features> of from_reader

vars == <<command, detector, num_images, pc, result, err, output, backup,
          out_dir, out_files, faces, base, origin, pending, outcome,
          features, a_pc, a_target, a_points, a_scale, a_result,
          p_pc, p_fate, workers, c_pc, c_map, c_ok, c_text, c_decoded>>

fsvars == <<output, backup, out_dir, out_files>>
imgvars == <<faces, base, origin, pending, outcome, features>>
cfgvars == <<command, detector, num_images>>
pvars == <<p_pc, p_fate, workers>>
cvars == <<c_pc, c_map, c_ok, c_text, c_decoded>>
\* the variables of the harnesses, which the commands leave alone
avars == <<a_pc, a_target, a_points, a_scale, a_result, pvars, cvars>>

Names == 1..num_images
NoFile == [kind |-> "none", proj |-> None]
CopyFile == [kind |-> "copy", proj |-> None]
WarpedFile(p) == [kind |-> "warped", proj |-> Some(p)]

\* ThreadSafe of each maybe_parallel call: Yes in transform_images,
\* !use_cnn_detector in Stabilize and extract_features
ThreadSafe == IF command = "Transform" THEN TRUE ELSE detector = "fast"

PoolOff == p_pc = "off" /\ p_fate = << >> /\ workers = << >>

CodecOff ==
    /\ c_pc = "off" /\ c_map = << >> /\ c_ok = "none"
    /\ c_text = << >> /\ c_decoded = None

AlignerOff ==
    /\ a_pc = "off" /\ a_target = << >> /\ a_points = << >>
    /\ a_scale = None /\ a_result = None
    /\ PoolOff
    /\ CodecOff

Init ==
    /\ command \in {"Stabilize", "ExtractFeatures", "Transform"}
    /\ detector \in IF command = "Transform" THEN {"fast"}
                    ELSE {"fast", "cnn", "cnn_nopath"}
    /\ num_images \in 0..MaxImages
    /\ pc = "start"
    /\ result = "running"
    /\ err = "none"
    /\ output \in IF command = "Transform" THEN {"absent"}
                  ELSE {"absent", "old"}
    /\ backup = "absent"
    /\ out_dir \in IF command = "ExtractFeatures" THEN {"absent"}
                   ELSE {"absent", "dir", "file"}
    /\ out_files = [i \in Names |-> NoFile]
    /\ faces = [i \in Names |-> None]
    /\ base = 0
    /\ origin = None
    /\ pending = {}
    /\ outcome = [i \in Names |-> "pending"]
    /\ features = {}
    /\ AlignerOff

\* run returns Err(cause)
Fail(cause) ==
    /\ pc' = "done"
    /\ result' = "error"
    /\ err' = cause

\* ------------------------------------------------------------------------
\* Stabilize and ExtractFeatures: set-up of Opts::run
\* ------------------------------------------------------------------------
\* `if use_cnn_detector { ensure!(face_detector.is_some()); set_cnn_path }`
LoadCnn ==
    /\ pc = "start"
    /\ command \in {"Stabilize", "ExtractFeatures"}
    /\ \/ /\ detector = "fast"
          /\ pc' = "backup"
          /\ UNCHANGED <<result, err>>
       \/ /\ detector = "cnn_nopath"
          /\ Fail("cnn_no_path")
       \/ /\ detector = "cnn"
          /\ \E opened \in BOOLEAN :
                IF opened THEN pc' = "backup" /\ UNCHANGED <<result, err>>
                ELSE Fail("cnn_open")
    /\ UNCHANGED <<cfgvars, fsvars, imgvars, avars>>

\* a backup step that leaves the existing file where it is
BackupOutputNoRename ==
    /\ pc = "backup"
    /\ pc' = "create"
    /\ UNCHANGED <<result, err, cfgvars, fsvars, imgvars, avars>>

\* `if output.exists() { std::fs::rename(&output, backup)...? }`
BackupOutput ==
    /\ pc = "backup"
    /\ IF output = "absent"
       THEN /\ pc' = "create"
            /\ UNCHANGED <<result, err, output, backup>>
       ELSE \E renamed \in BOOLEAN :
              IF renamed
              THEN /\ backup' = output
                   /\ output' = "absent"
                   /\ pc' = "create"
                   /\ UNCHANGED <<result, err>>
              ELSE /\ Fail("rename")
                   /\ UNCHANGED <<output, backup>>
    /\ UNCHANGED <<cfgvars, out_dir, out_files, imgvars, avars>>

\* `let writer = std::fs::File::create(output)...?`: creates or truncates
CreateOutput ==
    /\ pc = "create"
    /\ \E created \in BOOLEAN :
          IF created
          THEN /\ output' = "created"
               /\ pc' = "predictor"
               /\ UNCHANGED <<result, err>>
          ELSE /\ Fail("create")
               /\ UNCHANGED output
    /\ UNCHANGED <<cfgvars, backup, out_dir, out_files, imgvars, avars>>

\* `if !shape_predictor.is_file() { bail! }` and LandmarkPredictor::open,
\* in Stabilize and at the head of extract_features
LoadPredictor ==
    /\ pc = "predictor"
    /\ \E is_file \in BOOLEAN, opened \in BOOLEAN :
          IF ~is_file THEN Fail("predictor_not_file")
          ELSE IF ~opened THEN Fail("predictor_open")
          ELSE pc' = "list" /\ UNCHANGED <<result, err>>
    /\ UNCHANGED <<cfgvars, fsvars, imgvars, avars>>

\* all_file_names_in_dir, then in Stabilize sort_unstable and
\* ensure!(!imgs.is_empty()); extract_features hands every name to
\* maybe_parallel
ListDir ==
    /\ pc = "list"
    /\ \E listed \in BOOLEAN :
          IF ~listed
          THEN Fail("list_dir") /\ UNCHANGED pending
          ELSE IF command = "Stabilize"
          THEN IF num_images = 0
               THEN Fail("no_images") /\ UNCHANGED pending
               ELSE pc' = "reference" /\ UNCHANGED <<result, err, pending>>
          ELSE /\ pc' = "extracting"
               /\ pending' = Names
               /\ UNCHANGED <<result, err>>
    /\ UNCHANGED <<cfgvars, fsvars, faces, base, origin, outcome, features,
                   avars>>

\* the reference read as imgs[0] and left in the vec
ExtractReferenceKept ==
    /\ pc = "reference"
    /\ command = "Stabilize"
    /\ base' = 1
    /\ \E opened \in BOOLEAN :
          IF ~opened
          THEN Fail("reference_open") /\ UNCHANGED <<faces, origin, pending>>
          ELSE \E fs \in FaceChoices :
                /\ faces' = [faces EXCEPT ![1] = Some(fs)]
                /\ IF Len(fs) = 1
                   THEN /\ origin' = Some(fs[1])
                        /\ pending' = Names
                        /\ pc' = "stabilizing"
                        /\ UNCHANGED <<result, err>>
                   ELSE /\ Fail("reference_faces")
                        /\ UNCHANGED <<origin, pending>>
    /\ UNCHANGED <<cfgvars, fsvars, outcome, features, avars>>

\* Stabilize: `let base = imgs.remove(0)`, extract_feature(base), and the
\* match on its faces: anything but one face is bail!
ExtractReference ==
    /\ pc = "reference"
    /\ command = "Stabilize"
    /\ base' = 1
    /\ \E opened \in BOOLEAN :
          IF ~opened
          THEN Fail("reference_open") /\ UNCHANGED <<faces, origin, pending>>
          ELSE \E fs \in FaceChoices :
                /\ faces' = [faces EXCEPT ![1] = Some(fs)]
                /\ IF Len(fs) = 1
                   THEN /\ origin' = Some(fs[1])
                        /\ pending' = Names \ {1}
                        /\ pc' = "stabilizing"
                        /\ UNCHANGED <<result, err>>
                   ELSE /\ Fail("reference_faces")
                        /\ UNCHANGED <<origin, pending>>
    /\ UNCHANGED <<cfgvars, fsvars, outcome, features, avars>>

\* ------------------------------------------------------------------------
\* maybe_parallel: filter_map(f).collect() over the items, on the rayon
\* pool when ThreadSafe::Yes and in vec order otherwise.  Collecting into a
\* Result stops a sequential iterator at the first Err; on the pool the
\* items not yet started may or may not still run.  A panic unwinds the
\* sequential loop at once and is re-raised by the pool.
\* ------------------------------------------------------------------------
Failures == {"open_error", "save_error", "face_error", "panic"}
Stopped == \E i \in Names : outcome[i] \in Failures

\* the next item handed to f
Picks(i) ==
    /\ i \in pending
    /\ Stopped => ThreadSafe
    /\ \/ ThreadSafe
       \/ command = "ExtractFeatures"     \* vec in read_dir order
       \/ \A j \in pending : i <= j       \* vec sorted by name

\* the collect of maybe_parallel is over
Collected == pending = {} \/ Stopped

\* the value run ends with once the items are collected
CollectedResult ==
    IF \E i \in Names : outcome[i] = "panic" THEN "panic"
    ELSE IF Stopped THEN "error"
    ELSE "ok"

\* the closure of transform_images that treats a bad face count as Err
transform_one_strict(target, fs, opened, saved) ==
    IF Len(fs) # 1 THEN "face_error"
    ELSE IF ~opened THEN "open_error"
    ELSE IF apply_projection(target, fs[1]) = None THEN "panic"
    ELSE IF saved THEN "written"
    ELSE "save_error"

\* the closure f of transform_images on one (name, faces): the match on
\* faces, image::open, apply_projection, save
transform_one(target, fs, opened, saved) ==
    IF Len(fs) # 1 THEN "skipped"
    ELSE IF ~opened THEN "open_error"
    ELSE IF apply_projection(target, fs[1]) = None THEN "panic"
    ELSE IF saved THEN "written"
    ELSE "save_error"

\* the closure of stabilize_image after image::open succeeded: the match on
\* the detected faces, apply_projection, save
stabilize_one(target, fs, saved) ==
    IF Len(fs) # 1 THEN "skipped"
    ELSE IF apply_projection(target, fs[1]) = None THEN "panic"
    ELSE IF saved THEN "written"
    ELSE "save_error"

\* the file left under output_dir by an item that ended with `how`
Written(i, how, fs) ==
    IF how = "written"
    THEN [out_files EXCEPT
            ![i] = WarpedFile(Unwrap(apply_projection(Unwrap(origin), fs[1])))]
    ELSE out_files

\* stabilize_image that returns the faces of an ignored image as well
StabilizeImageKeepAll(i) ==
    /\ pc = "stabilizing"
    /\ Picks(i)
    /\ pending' = pending \ {i}
    /\ \E opened \in BOOLEAN :
          IF ~opened
          THEN /\ outcome' = [outcome EXCEPT ![i] = "open_error"]
               /\ UNCHANGED <<faces, out_files, features>>
          ELSE \E fs \in FaceChoices, saved \in {FALSE, out_dir = "dir"} :
                LET how == stabilize_one(Unwrap(origin), fs, saved) IN
                /\ faces' = [faces EXCEPT ![i] = Some(fs)]
                /\ outcome' = [outcome EXCEPT ![i] = how]
                /\ out_files' = Written(i, how, fs)
                /\ features' = IF how \in {"written", "skipped"}
                               THEN features \cup {i}
                               ELSE features
    /\ UNCHANGED <<cfgvars, pc, result, err, output, backup, out_dir, base,
                   origin, avars>>

\* Stabilize: stabilize_image on one name
StabilizeImage(i) ==
    /\ pc = "stabilizing"
    /\ Picks(i)
    /\ pending' = pending \ {i}
    /\ \E opened \in BOOLEAN :
          IF ~opened
          THEN /\ outcome' = [outcome EXCEPT ![i] = "open_error"]
               /\ UNCHANGED <<faces, out_files, features>>
          ELSE \E fs \in FaceChoices, saved \in {FALSE, out_dir = "dir"} :
                LET how == stabilize_one(Unwrap(origin), fs, saved) IN
                /\ faces' = [faces EXCEPT ![i] = Some(fs)]
                /\ outcome' = [outcome EXCEPT ![i] = how]
                /\ out_files' = Written(i, how, fs)
                /\ features' = IF how = "written" THEN features \cup {i}
                               ELSE features
    /\ UNCHANGED <<cfgvars, pc, result, err, output, backup, out_dir, base,
                   origin, avars>>

\* Stabilize: `features?` on the collected Result
CollectStabilized ==
    /\ pc = "stabilizing"
    /\ Collected
    /\ IF CollectedResult = "ok"
       THEN pc' = "serialize" /\ UNCHANGED <<result, err>>
       ELSE pc' = "done" /\ result' = CollectedResult /\ err' = "image"
    /\ UNCHANGED <<cfgvars, fsvars, imgvars, avars>>

\* extract_feature that records an image only when it shows one face
ExtractFeatureOneFace(i) ==
    /\ pc = "extracting"
    /\ Picks(i)
    /\ pending' = pending \ {i}
    /\ \E opened \in BOOLEAN :
          IF ~opened
          THEN /\ outcome' = [outcome EXCEPT ![i] = "open_error"]
               /\ UNCHANGED <<faces, features>>
          ELSE \E fs \in FaceChoices :
                /\ faces' = [faces EXCEPT ![i] = Some(fs)]
                /\ outcome' = [outcome EXCEPT ![i] =
                                 IF Len(fs) = 1 THEN "extracted"
                                 ELSE "skipped"]
                /\ features' = IF Len(fs) = 1 THEN features \cup {i}
                               ELSE features
    /\ UNCHANGED <<cfgvars, pc, result, err, fsvars, base, origin, avars>>

\* extract_features: extract_feature on one name
ExtractFeature(i) ==
    /\ pc = "extracting"
    /\ Picks(i)
    /\ pending' = pending \ {i}
    /\ \E opened \in BOOLEAN :
          IF ~opened
          THEN /\ outcome' = [outcome EXCEPT ![i] = "open_error"]
               /\ UNCHANGED <<faces, features>>
          ELSE \E fs \in FaceChoices :
                /\ faces' = [faces EXCEPT ![i] = Some(fs)]
                /\ outcome' = [outcome EXCEPT ![i] = "extracted"]
                /\ features' = features \cup {i}
    /\ UNCHANGED <<cfgvars, pc, result, err, fsvars, base, origin, avars>>

\* extract_features: `maybe_parallel(..)?`
CollectExtracted ==
    /\ pc = "extracting"
    /\ Collected
    /\ IF CollectedResult = "ok"
       THEN pc' = "serialize" /\ UNCHANGED <<result, err>>
       ELSE pc' = "done" /\ result' = CollectedResult /\ err' = "image"
    /\ UNCHANGED <<cfgvars, fsvars, imgvars, avars>>

\* serde_json to_writer / to_writer_pretty into the created file
Serialize ==
    /\ pc = "serialize"
    /\ \E wrote \in BOOLEAN :
          IF wrote
          THEN /\ output' = "written"
               /\ pc' = "done"
               /\ result' = "ok"
               /\ UNCHANGED err
          ELSE /\ Fail("serialize")
               /\ UNCHANGED output
    /\ UNCHANGED <<cfgvars, backup, out_dir, out_files, imgvars, avars>>

\* ------------------------------------------------------------------------
\* Transform
\* ------------------------------------------------------------------------
\* ensure!(exists), ensure!(is_file), File::open, serde_json from_reader
ReadFeatures ==
    /\ pc = "start"
    /\ command = "Transform"
    /\ \E loaded \in BOOLEAN :
          IF ~loaded
          THEN Fail("features_file") /\ UNCHANGED <<faces, features>>
          ELSE \E fm \in [Names -> FaceChoices] :
                /\ faces' = [i \in Names |-> Some(fm[i])]
                /\ features' = Names
                /\ pc' = "reference"
                /\ UNCHANGED <<result, err>>
    /\ UNCHANGED <<cfgvars, fsvars, base, origin, pending, outcome, avars>>

\* features.first_feature() (pop_first of the BTreeMap) and the match on
\* its faces: anything but one face is warn! and `return Ok(())`
PickReference ==
    /\ pc = "reference"
    /\ command = "Transform"
    /\ IF features = {}
       THEN /\ Fail("no_reference")
            /\ UNCHANGED <<base, origin, features>>
       ELSE LET name == CHOOSE i \in features : \A j \in features : i <= j
                fs == Unwrap(faces[name])
            IN  /\ base' = name
                /\ features' = features \ {name}
                /\ IF Len(fs) = 1
                   THEN /\ origin' = Some(fs[1])
                        /\ pc' = "copy"
                        /\ UNCHANGED <<result, err>>
                   ELSE /\ pc' = "done"
                        /\ result' = "ok"
                        /\ UNCHANGED <<err, origin>>
    /\ UNCHANGED <<cfgvars, fsvars, faces, pending, outcome, avars>>

\* copy(&name, &features.basedir, &output_dir): std::fs::copy into
\* output_dir, which nothing has created yet
CopyReference ==
    /\ pc = "copy"
    /\ \E copied \in {FALSE, out_dir = "dir"} :
          IF copied
          THEN /\ out_files' = [out_files EXCEPT ![base] = CopyFile]
               /\ pc' = "out_dir"
               /\ UNCHANGED <<result, err>>
          ELSE /\ Fail("copy")
               /\ UNCHANGED out_files
    /\ UNCHANGED <<cfgvars, output, backup, out_dir, imgvars, avars>>

\* head of transform_images: create_dir if output_dir does not exist,
\* else ensure!(is_dir); then retrieve_features takes the whole map
PrepareOutDir ==
    /\ pc = "out_dir"
    /\ IF out_dir = "absent"
       THEN \E made \in BOOLEAN :
              IF made
              THEN /\ out_dir' = "dir"
                   /\ pc' = "transforming"
                   /\ pending' = features
                   /\ features' = {}
                   /\ UNCHANGED <<result, err>>
              ELSE /\ Fail("create_dir")
                   /\ UNCHANGED <<out_dir, pending, features>>
       ELSE IF out_dir = "dir"
       THEN /\ pc' = "transforming"
            /\ pending' = features
            /\ features' = {}
            /\ UNCHANGED <<result, err, out_dir>>
       ELSE /\ Fail("not_a_directory")
            /\ UNCHANGED <<out_dir, pending, features>>
    /\ UNCHANGED <<cfgvars, output, backup, out_files, faces, base, origin,
                   outcome, avars>>

\* transform_images: the closure f on one (name, faces)
TransformImage(i) ==
    /\ pc = "transforming"
    /\ Picks(i)
    /\ pending' = pending \ {i}
    /\ \E opened \in BOOLEAN, saved \in {FALSE, out_dir = "dir"} :
          LET fs == Unwrap(faces[i])
              how == transform_one(Unwrap(origin), fs, opened, saved)
          IN  /\ outcome' = [outcome EXCEPT ![i] = how]
              /\ out_files' = Written(i, how, fs)
    /\ UNCHANGED <<cfgvars, pc, result, err, output, backup, out_dir, faces,
                   base, origin, features, avars>>

\* transform_images: the Result<()> collected by maybe_parallel is what
\* run returns
CollectTransformed ==
    /\ pc = "transforming"
    /\ Collected
    /\ pc' = "done"
    /\ result' = CollectedResult
    /\ err' = IF CollectedResult = "ok" THEN "none" ELSE "image"
    /\ UNCHANGED <<cfgvars, fsvars, imgvars, avars>>

Next ==
    \/ LoadCnn
    \/ BackupOutput
    \/ CreateOutput
    \/ LoadPredictor
    \/ ListDir
    \/ ExtractReference
    \/ \E i \in Names : StabilizeImage(i)
    \/ CollectStabilized
    \/ \E i \in Names : ExtractFeature(i)
    \/ CollectExtracted
    \/ Serialize
    \/ ReadFeatures
    \/ PickReference
    \/ CopyReference
    \/ PrepareOutDir
    \/ \E i \in Names : TransformImage(i)
    \/ CollectTransformed

Spec == Init /\ [][Next]_vars

\* ------------------------------------------------------------------------
\* The Shape Aligner on its own: procrustes_superimposition and scale
\* applied to every pair of point sequences within the bounds
\* ------------------------------------------------------------------------
Coords == 0..MaxCoord
AllPoints == Coords \X Coords
TargetPoints == { <<0, 0>>, <<MaxCoord, 0>>, <<0, MaxCoord>> }
PointSeqs(S) == UNION { [1..k -> S] : k \in 0..MaxLen }

PipelineOff ==
    /\ command = "none" /\ detector = "fast" /\ num_images = 0
    /\ pc = "off" /\ result = "running" /\ err = "none"
    /\ output = "absent" /\ backup = "absent" /\ out_dir = "absent"
    /\ out_files = << >> /\ faces = << >> /\ base = 0 /\ origin = None
    /\ pending = {} /\ outcome = << >> /\ features = {}

AlignerInit ==
    /\ PipelineOff
    /\ a_pc = "input"
    /\ a_target \in PointSeqs(TargetPoints)
    /\ a_points \in PointSeqs(AllPoints)
    /\ a_scale = None
    /\ a_result = None
    /\ PoolOff
    /\ CodecOff

\* center(points) followed by scale(points), as procrustes_superimposition
\* does with each of its slices
CallScale ==
    /\ a_pc = "input"
    /\ a_scale' = scale(center(ToVec2(a_points)).points).ret
    /\ a_pc' = "scaled"
    /\ UNCHANGED <<a_target, a_points, a_result>>
    /\ UNCHANGED <<cfgvars, pc, result, err, fsvars, imgvars, pvars, cvars>>

\* procrustes_superimposition(&mut target, &mut points)
CallProcrustes ==
    /\ a_pc = "scaled"
    /\ a_result' = apply_projection(a_target, a_points)
    /\ a_pc' = "done"
    /\ UNCHANGED <<a_target, a_points, a_scale>>
    /\ UNCHANGED <<cfgvars, pc, result, err, fsvars, imgvars, pvars, cvars>>

AlignerNext == CallScale \/ CallProcrustes

SpecAligner == AlignerInit /\ [][AlignerNext]_vars

\* ------------------------------------------------------------------------
\* maybe_parallel harness: one call of maybe_parallel(vec, thread_safe, f)
\* with vec = <<1, .., num_images>> and f the per-image closure of the
\* command, followed through the calls f makes on each thread
\* ------------------------------------------------------------------------
Workers == 1..NumWorkers
Idle == [item |-> 0, at |-> "idle"]

\* thread_local! DETECTOR / DETECTOR_CNN: DETECTOR.with hands each thread
\* the instance of that thread
DetectorOf(w) == <<"detector", w>>

\* the one LandmarkPredictor opened by run / extract_features, borrowed by
\* the closure that every thread runs
PredictorOf(w) == <<"predictor", "shared">>

\* what f can return for an item: Some(Ok(..)) ("written", "extracted"),
\* None ("skipped"), Some(Err(..)) ("open_error")
Fates ==
    IF command = "ExtractFeatures" THEN {"extracted", "open_error"}
    ELSE {"written", "skipped", "open_error"}

\* number of faces the detector reports for an item of that fate
FacesOf(fate) ==
    IF fate = "written" THEN {1}
    ELSE IF fate = "skipped" THEN {0, 2}
    ELSE {0, 1, 2}

PoolInit ==
    /\ command \in {"Stabilize", "ExtractFeatures", "Transform"}
    /\ detector \in IF command = "Transform" THEN {"fast"}
                    ELSE {"fast", "cnn"}
    /\ num_images \in 0..MaxImages
    /\ pc = "off" /\ result = "running" /\ err = "none"
    /\ output = "absent" /\ backup = "absent" /\ out_dir = "absent"
    /\ out_files = << >> /\ faces = << >> /\ base = 0 /\ origin = None
    /\ pending = Names
    /\ outcome = [i \in Names |-> "pending"]
    /\ features = {}
    /\ a_pc = "off" /\ a_target = << >> /\ a_points = << >>
    /\ a_scale = None /\ a_result = None
    /\ p_pc = "run"
    /\ p_fate \in [Names -> Fates]
    /\ workers = [w \in Workers |-> Idle]
    /\ CodecOff

\* f returns on thread w
Returns(w, how) ==
    /\ workers' = [workers EXCEPT ![w] = Idle]
    /\ outcome' = [outcome EXCEPT ![workers[w].item] = how]
    /\ features' = IF how \in {"written", "extracted"}
                   THEN features \cup {workers[w].item}
                   ELSE features

\* thread w takes item i: par_iter hands any item not yet started to any
\* free thread; vec_iter_seq runs on the calling thread, in vec order, and
\* collect stops it at the first Err
PoolBegin(w, i) ==
    /\ p_pc = "run"
    /\ workers[w] = Idle
    /\ i \in pending
    /\ ThreadSafe \/ /\ w = 1
                     /\ ~Stopped
                     /\ \A j \in pending : i <= j
    /\ pending' = pending \ {i}
    /\ workers' = [workers EXCEPT ![w] = [item |-> i, at |-> "open"]]
    /\ UNCHANGED <<cfgvars, pc, result, err, fsvars, faces, base, origin,
                   outcome, features, a_pc, a_target, a_points, a_scale,
                   a_result, p_pc, p_fate, cvars>>

\* image::open(..)?; the closure of transform_images has the faces already
PoolOpen(w) ==
    /\ p_pc = "run"
    /\ workers[w].at = "open"
    /\ IF p_fate[workers[w].item] = "open_error"
       THEN Returns(w, "open_error")
       ELSE /\ workers' = [workers EXCEPT ![w].at =
                             IF command = "Transform" THEN "warp"
                             ELSE "detect"]
            /\ UNCHANGED <<outcome, features>>
    /\ UNCHANGED <<cfgvars, pc, result, err, fsvars, faces, base, origin,
                   pending, a_pc, a_target, a_points, a_scale, a_result,
                   p_pc, p_fate, cvars>>

\* extract_landmarks: detector.face_locations(image) returns; with no face
\* the predictor is not called
PoolDetect(w) ==
    /\ p_pc = "run"
    /\ workers[w].at = "detect"
    /\ \E n \in FacesOf(p_fate[workers[w].item]) :
          IF n > 0
          THEN /\ workers' = [workers EXCEPT ![w].at = "predict"]
               /\ UNCHANGED <<outcome, features>>
          ELSE Returns(w, p_fate[workers[w].item])
    /\ UNCHANGED <<cfgvars, pc, result, err, fsvars, faces, base, origin,
                   pending, a_pc, a_target, a_points, a_scale, a_result,
                   p_pc, p_fate, cvars>>

\* extract_landmarks: predictor.face_landmarks(image, &face) returns for
\* the last face; extract_feature returns, stabilize_image goes on to the
\* match on the faces
PoolPredict(w) ==
    /\ p_pc = "run"
    /\ workers[w].at = "predict"
    /\ IF p_fate[workers[w].item] = "written"
       THEN /\ workers' = [workers EXCEPT ![w].at = "warp"]
            /\ UNCHANGED <<outcome, features>>
       ELSE Returns(w, p_fate[workers[w].item])
    /\ UNCHANGED <<cfgvars, pc, result, err, fsvars, faces, base, origin,
                   pending, a_pc, a_target, a_points, a_scale, a_result,
                   p_pc, p_fate, cvars>>

\* apply_projection and save, or the None of the match on the faces
PoolWarp(w) ==
    /\ p_pc = "run"
    /\ workers[w].at = "warp"
    /\ Returns(w, p_fate[workers[w].item])
    /\ UNCHANGED <<cfgvars, pc, result, err, fsvars, faces, base, origin,
                   pending, a_pc, a_target, a_points, a_scale, a_result,
                   p_pc, p_fate, cvars>>

\* collect() returns: no thread is in f, and every item was started or an
\* Err was seen
PoolCollect ==
    /\ p_pc = "run"
    /\ \A w \in Workers : workers[w] = Idle
    /\ Collected
    /\ p_pc' = "done"
    /\ result' = CollectedResult
    /\ UNCHANGED <<cfgvars, pc, err, fsvars, imgvars, a_pc, a_target,
                   a_points, a_scale, a_result, p_fate, workers, cvars>>

PoolNext ==
    \/ \E w \in Workers, i \in Names : PoolBegin(w, i)
    \/ \E w \in Workers : PoolOpen(w)
    \/ \E w \in Workers : PoolDetect(w)
    \/ \E w \in Workers : PoolPredict(w)
    \/ \E w \in Workers : PoolWarp(w)
    \/ PoolCollect

SpecPool == PoolInit /\ [][PoolNext]_vars

\* the images f wrote under output_dir
PoolWritten == {i \in Names : outcome[i] = "written"}

\* ThreadSafe::No: vec_iter_seq(vec).filter_map(f).collect() on the same
\* items, from item i on
RECURSIVE SeqCollect(_, _)
SeqCollect(i, acc) ==
    IF i > num_images THEN acc
    ELSE IF p_fate[i] = "open_error" THEN [acc EXCEPT !.result = "error"]
    ELSE SeqCollect(i + 1,
           [acc EXCEPT
              !.features = IF p_fate[i] \in {"written", "extracted"}
                           THEN @ \cup {i} ELSE @,
              !.written = IF p_fate[i] = "written" THEN @ \cup {i} ELSE @])

SeqRun == SeqCollect(1, [result |-> "ok", features |-> {}, written |-> {}])

\* ------------------------------------------------------------------------
\* Feature file harness: serde_json::ser::to_writer / to_writer_pretty of
\* a Features value into the file, and serde_json::de::from_reader of the
\* file.  A text is a sequence of characters; "dquote", "bslash", "nl" and
\* "sp" name the double quote, the backslash, the line feed and the space,
\* "badbyte" a byte of a path that is not valid UTF-8.
\* ------------------------------------------------------------------------
BasedirKey == <<"b", "a", "s", "e", "d", "i", "r">>
FeaturesKey == <<"f", "e", "a", "t", "u", "r", "e", "s">>
LeftKey == <<"l", "e", "f", "t">>
TopKey == <<"t", "o", "p">>
RightKey == <<"r", "i", "g", "h", "t">>
BottomKey == <<"b", "o", "t", "t", "o", "m">>

DigitSeq == <<"0", "1", "2", "3", "4", "5", "6", "7", "8", "9">>
DigitChars == {DigitSeq[k] : k \in 1..Len(DigitSeq)}
DigitVal(c) == (CHOOSE k \in 1..Len(DigitSeq) : DigitSeq[k] = c) - 1

\* the characters of the names in byte order, as str's Ord compares them
CharOrder == <<"nl", "dquote", "bslash", "a", "n">>
CharCode(c) == CHOOSE k \in 1..Len(CharOrder) : CharOrder[k] = c

RECURSIVE StrLeq(_, _)
StrLeq(s, t) ==
    IF s = << >> THEN TRUE
    ELSE IF t = << >> THEN FALSE
    ELSE IF s[1] = t[1] THEN StrLeq(Tail(s), Tail(t))
    ELSE CharCode(s[1]) < CharCode(t[1])

\* the keys of the BTreeMap in iteration order
RECURSIVE SortedKeys(_)
SortedKeys(S) ==
    IF S = {} THEN << >>
    ELSE LET k == CHOOSE x \in S : \A y \in S : StrLeq(x, y)
         IN  <<k>> \o SortedKeys(S \ {k})

\* itoa of an i64
RECURSIVE Digits(_)
Digits(n) ==
    IF n < 10 THEN <<DigitSeq[n + 1]>>
    ELSE Digits(n \div 10) \o <<DigitSeq[(n % 10) + 1]>>

EncInt(n) == IF n < 0 THEN <<"-">> \o Digits(-n) ELSE Digits(n)

\* format_escaped_str_contents: the quote, the backslash and the control
\* characters are written as escapes
RECURSIVE Escaped(_)
Escaped(str) ==
    IF str = << >> THEN << >>
    ELSE (IF Head(str) = "dquote" THEN <<"bslash", "dquote">>
          ELSE IF Head(str) = "bslash" THEN <<"bslash", "bslash">>
          ELSE IF Head(str) = "nl" THEN <<"bslash", "n">>
          ELSE <<Head(str)>>) \o Escaped(Tail(str))

\* a string written with none of its characters escaped
EncStringRaw(str) == <<"dquote">> \o str \o <<"dquote">>

EncString(str) == <<"dquote">> \o Escaped(str) \o <<"dquote">>

\* CompactFormatter / PrettyFormatter: ind is the nesting depth of the
\* pretty printer, Compact for the compact one
Compact == -1
Deeper(ind) == IF ind = Compact THEN Compact ELSE ind + 1
Indent(ind) == [k \in 1..(2 * ind) |-> "sp"]

\* begin_array_value / begin_object_key
Sep(ind, first) ==
    IF ind = Compact THEN (IF first THEN << >> ELSE <<",">>)
    ELSE (IF first THEN <<"nl">> ELSE <<",", "nl">>) \o Indent(ind)

\* begin_object_value
Colon(ind) == IF ind = Compact THEN <<":">> ELSE <<":", "sp">>

\* end_array / end_object of a container opened at depth ind
Close(ind, empty) ==
    IF ind = Compact \/ empty THEN << >> ELSE <<"nl">> \o Indent(ind)

\* the type of element i of a sequence-like value: Landmarks is a
\* Box<[(i64, i64)]>, Faces a Box<[Face]>, Face the tuple (Rect, Landmarks)
ElemKind(kind, i) ==
    IF kind = "pair" THEN "int"
    ELSE IF kind = "landmarks" THEN "pair"
    ELSE IF kind = "faces" THEN "face"
    ELSE IF i = 1 THEN "rect"
    ELSE "landmarks"

\* the (key, type, value) entries of a map-like value in the order they
\* are written: the fields of Rect and of Features as declared, the
\* BTreeMap in key order
Entries(kind, v) ==
    IF kind = "rect"
    THEN << <<LeftKey, "int", v.left>>, <<TopKey, "int", v.top>>,
            <<RightKey, "int", v.right>>, <<BottomKey, "int", v.bottom>> >>
    ELSE IF kind = "features"
    THEN << <<BasedirKey, "string", v.basedir>>,
            <<FeaturesKey, "map", v.features>> >>
    ELSE LET keys == SortedKeys(DOMAIN v)
         IN  [k \in 1..Len(keys) |-> <<keys[k], "faces", v[keys[k]]>>]

\* Serialize for each type of the feature file
RECURSIVE Enc(_, _, _)
RECURSIVE EncElems(_, _, _, _)
RECURSIVE EncEntries(_, _, _)

EncElems(kind, vs, i, ind) ==
    IF i > Len(vs) THEN << >>
    ELSE Sep(ind, i = 1) \o Enc(ElemKind(kind, i), vs[i], ind)
           \o EncElems(kind, vs, i + 1, ind)

EncEntries(es, i, ind) ==
    IF i > Len(es) THEN << >>
    ELSE Sep(ind, i = 1) \o EncString(es[i][1]) \o Colon(ind)
           \o Enc(es[i][2], es[i][3], ind) \o EncEntries(es, i + 1, ind)

Enc(kind, v, ind) ==
    IF kind = "int" THEN EncInt(v)
    ELSE IF kind = "string" THEN EncString(v)
    ELSE IF kind \in {"pair", "landmarks", "faces", "face"}
    THEN <<"[">> \o EncElems(kind, v, 1, Deeper(ind))
           \o Close(ind, v = << >>) \o <<"]">>
    ELSE <<"{">> \o EncEntries(Entries(kind, v), 1, Deeper(ind))
           \o Close(ind, DOMAIN v = {}) \o <<"}">>

\* to_writer(writer, &features): Path's Serialize fails on a path that is
\* not valid UTF-8, after the opening of the object and the key were
\* written
to_writer(fm, ind) ==
    IF \E k \in 1..Len(fm.basedir) : fm.basedir[k] = "badbyte"
    THEN [ok |-> "error",
          text |-> <<"{">> \o Sep(Deeper(ind), TRUE) \o EncString(BasedirKey)
                     \o Colon(ind)]
    ELSE [ok |-> "ok", text |-> Enc("features", fm, ind)]

\* the deserializer: a parse returns whether it succeeded, the value and
\* the position after it
Bad == [ok |-> FALSE, v |-> << >>, p |-> 0]
Good(v, p) == [ok |-> TRUE, v |-> v, p |-> p]
At(t, p) == IF p <= Len(t) THEN t[p] ELSE "eof"

\* parse_whitespace
RECURSIVE SkipWs(_, _)
SkipWs(t, p) == IF At(t, p) \in {"sp", "nl"} THEN SkipWs(t, p + 1) ELSE p

\* parse_str: up to the closing quote, escapes decoded; a raw control
\* character or the end of the text is an error
RECURSIVE StrBody(_, _, _)
StrBody(t, p, acc) ==
    LET c == At(t, p)
        e == At(t, p + 1)
    IN  IF c = "dquote" THEN Good(acc, p + 1)
        ELSE IF c = "bslash"
        THEN IF e = "dquote" THEN StrBody(t, p + 2, Append(acc, "dquote"))
             ELSE IF e = "bslash"
             THEN StrBody(t, p + 2, Append(acc, "bslash"))
             ELSE IF e = "n" THEN StrBody(t, p + 2, Append(acc, "nl"))
             ELSE Bad
        ELSE IF c \in {"eof", "nl"} THEN Bad
        ELSE StrBody(t, p + 1, Append(acc, c))

ParseString(t, p) == IF At(t, p) = "dquote" THEN StrBody(t, p + 1, << >>)
                     ELSE Bad

\* parse_integer: the digits after the first
RECURSIVE IntBody(_, _, _)
IntBody(t, p, acc) ==
    IF At(t, p) \in DigitChars
    THEN IntBody(t, p + 1, 10 * acc + DigitVal(At(t, p)))
    ELSE Good(acc, p)

\* deserialize_i64: an optional minus, then 0 alone or a number without
\* leading zero; -0 is a float and no i64
ParseInt(t, p) ==
    LET neg == At(t, p) = "-"
        q == IF neg THEN p + 1 ELSE p
        n == IntBody(t, q, 0)
    IN  IF At(t, q) \notin DigitChars THEN Bad
        ELSE IF At(t, q) = "0"
        THEN IF neg \/ At(t, q + 1) \in DigitChars THEN Bad
             ELSE Good(0, q + 1)
        ELSE Good(IF neg THEN -n.v ELSE n.v, n.p)

\* the type of the value of key k in a map-like value; the derived
\* visitors know the fields of the struct, the BTreeMap takes any key.  A
\* key that is no field of the struct, which the serializer never writes,
\* is not followed further.
FieldKind(kind, k) ==
    IF kind = "map" THEN "faces"
    ELSE IF kind = "rect" /\ k \in {LeftKey, TopKey, RightKey, BottomKey}
    THEN "int"
    ELSE IF kind = "features" /\ k = BasedirKey THEN "string"
    ELSE IF kind = "features" /\ k = FeaturesKey THEN "map"
    ELSE "unknown"

\* the value built once the object is closed: a struct needs each of its
\* fields
Built(kind, acc, p) ==
    IF kind = "map" THEN Good(acc, p)
    ELSE IF kind = "rect"
    THEN IF DOMAIN acc = {LeftKey, TopKey, RightKey, BottomKey}
         THEN Good([left |-> acc[LeftKey], top |-> acc[TopKey],
                    right |-> acc[RightKey], bottom |-> acc[BottomKey]], p)
         ELSE Bad
    ELSE IF DOMAIN acc = {BasedirKey, FeaturesKey}
         THEN Good([basedir |-> acc[BasedirKey],
                    features |-> acc[FeaturesKey]], p)
         ELSE Bad

\* Deserialize for each type of the feature file
RECURSIVE ParseValue(_, _, _)
RECURSIVE ParseElems(_, _, _, _)
RECURSIVE ParseFields(_, _, _, _)

\* the elements of a sequence after `[`: a slice takes any number, a tuple
\* exactly its arity
ParseElems(kind, t, p0, acc) ==
    LET p == SkipWs(t, p0)
        e == ParseValue(ElemKind(kind, Len(acc) + 1), t, p)
        q == SkipWs(t, e.p)
        tuple == kind \in {"pair", "face"}
    IN  IF acc = << >> /\ At(t, p) = "]"
        THEN IF tuple THEN Bad ELSE Good(acc, p + 1)
        ELSE IF ~e.ok THEN Bad
        ELSE IF At(t, q) = ","
        THEN IF tuple /\ Len(acc) = 1 THEN Bad
             ELSE ParseElems(kind, t, q + 1, Append(acc, e.v))
        ELSE IF At(t, q) = "]"
        THEN IF tuple /\ Len(acc) = 0 THEN Bad
             ELSE Good(Append(acc, e.v), q + 1)
        ELSE Bad

\* the entries of an object after `{`; a struct rejects a field it has
\* seen already, the BTreeMap keeps the last value of a key
ParseFields(kind, t, p0, acc) ==
    LET p == SkipWs(t, p0)
        k == ParseString(t, p)
        c == SkipWs(t, k.p)
        v == ParseValue(FieldKind(kind, k.v), t, c + 1)
        q == SkipWs(t, v.p)
        more == [x \in DOMAIN acc \cup {k.v} |->
                   IF x = k.v THEN v.v ELSE acc[x]]
    IN  IF DOMAIN acc = {} /\ At(t, p) = "}" THEN Built(kind, acc, p + 1)
        ELSE IF ~k.ok \/ At(t, c) # ":" THEN Bad
        ELSE IF kind # "map" /\ k.v \in DOMAIN acc THEN Bad
        ELSE IF ~v.ok THEN Bad
        ELSE IF At(t, q) = "," THEN ParseFields(kind, t, q + 1, more)
        ELSE IF At(t, q) = "}" THEN Built(kind, more, q + 1)
        ELSE Bad

ParseValue(kind, t, p0) ==
    LET p == SkipWs(t, p0)
    IN  IF kind = "int" THEN ParseInt(t, p)
        ELSE IF kind = "string" THEN ParseString(t, p)
        ELSE IF kind \in {"pair", "landmarks", "faces", "face"}
        THEN IF At(t, p) = "[" THEN ParseElems(kind, t, p + 1, << >>)
             ELSE Bad
        ELSE IF kind \in {"rect", "map", "features"}
        THEN IF At(t, p) = "{" THEN ParseFields(kind, t, p + 1, << >>)
             ELSE Bad
        ELSE Bad

\* from_reader: the value, then nothing but whitespace up to the end
from_reader(t) ==
    LET r == ParseValue("features", t, 1)
    IN  IF r.ok /\ SkipWs(t, r.p) > Len(t) THEN Some(r.v) ELSE None

\* the Features values of the harness: a base directory of up to MaxLen
\* characters, up to MaxImages names out of NameChoices, and for each name
\* no face, one face or two faces
PathChars == {"a", "dquote", "bslash", "badbyte"}
Paths == UNION { [1..k -> PathChars] : k \in 0..MaxLen }
NameChoices == { <<"a", "nl">>, <<"dquote", "n">>, <<"bslash", "n">> }

FaceA ==
    << [left |-> -MaxCoord, top |-> 0, right |-> 10 * MaxCoord,
        bottom |-> 100 + MaxCoord],
       << <<0, -10>>, <<MaxCoord, 9>> >> >>
FaceB == << [left |-> 7, top |-> -205, right |-> 30, bottom |-> 0], << >> >>
FaceSets == { << >>, <<FaceA>>, <<FaceB, FaceA>> }

FeatureMaps ==
    { [basedir |-> b, features |-> f] :
        b \in Paths,
        f \in UNION { [K -> FaceSets] :
                        K \in { S \in SUBSET NameChoices :
                                  Cardinality(S) <= MaxImages } } }

CodecInit ==
    /\ PipelineOff
    /\ a_pc = "off" /\ a_target = << >> /\ a_points = << >>
    /\ a_scale = None /\ a_result = None
    /\ PoolOff
    /\ c_pc = "map"
    /\ c_map \in FeatureMaps
    /\ c_ok = "none"
    /\ c_text = << >>
    /\ c_decoded = None

\* `if pretty { to_writer_pretty(writer, &features) } else { to_writer(..) }`
CodecWrite ==
    /\ c_pc = "map"
    /\ \E pretty \in BOOLEAN :
          LET w == to_writer(c_map, IF pretty THEN 0 ELSE Compact)
          IN  /\ c_ok' = w.ok
              /\ c_text' = w.text
    /\ c_pc' = "encoded"
    /\ UNCHANGED <<cfgvars, pc, result, err, fsvars, imgvars, a_pc, a_target,
                   a_points, a_scale, a_result, pvars, c_map, c_decoded>>

\* `let mut features: Features = serde_json::de::from_reader(file)`
CodecRead ==
    /\ c_pc = "encoded"
    /\ c_decoded' = from_reader(c_text)
    /\ c_pc' = "decoded"
    /\ UNCHANGED <<cfgvars, pc, result, err, fsvars, imgvars, a_pc, a_target,
                   a_points, a_scale, a_result, pvars, c_map, c_ok, c_text>>

CodecNext == CodecWrite \/ CodecRead

SpecCodec == CodecInit /\ [][CodecNext]_vars

\* ------------------------------------------------------------------------
\* Claims
\* ------------------------------------------------------------------------
\* every point of the sequence is the same point: the centered points are
\* all at the origin and the scaling factor is 0
Coincident(points) ==
    points # << >> /\ \A i \in 1..Len(points) : points[i] = points[1]

\* C6: procrustes_superimposition(target, points) is None whenever target
\* is empty, points is empty, or the two have different lengths.
C6_UndefinedOnEmptyOrMismatch ==
    (a_pc = "done" /\ (a_target = << >> \/ a_points = << >>
                        \/ Len(a_target) # Len(a_points)))
        => a_result = None

C6_Witness ==
    /\ a_pc = "done"
    /\ a_target # << >> /\ a_points # << >>
    /\ Len(a_target) # Len(a_points)
    /\ a_result = None

\* C7: scale returns None when the scaling factor is 0, and
\* procrustes_superimposition returns None whenever either input has zero
\* scale.
C7_ZeroScaleIsUndefined ==
    /\ (a_pc \in {"scaled", "done"} /\ Coincident(a_points))
            => a_scale = None
    /\ (a_pc = "done" /\ (Coincident(a_points) \/ Coincident(a_target)))
            => a_result = None

\* the run aligns images: Stabilize or Transform
Aligning == command \in {"Stabilize", "Transform"}
Others == Names \ {base}
FaceCount(i) == Len(Unwrap(faces[i]))
Seen(i) == faces[i] # None

\* C1: in Transform and in Stabilize, a reference image with zero faces or
\* more than one face ends the run in a fatal error, and no other image is
\* transformed.
C1_BadReferenceIsFatal ==
    (pc = "done" /\ Aligning /\ base # 0 /\ Seen(base) /\ FaceCount(base) # 1)
        => /\ result = "error"
           /\ \A i \in Others : out_files[i].kind = "none"

\* C2: a non-reference image with zero faces or several faces is skipped: no
\* output file is written for it, the other images are still processed, and
\* a run whose only anomalies are such skips ends in success.
C2_SkipIsNotFatal ==
    Aligning =>
    /\ \A i \in Others :
          (outcome[i] # "pending" /\ Seen(i) /\ FaceCount(i) # 1)
              => (outcome[i] = "skipped" /\ out_files[i].kind = "none")
    /\ (/\ pc = "done"
        /\ origin # None
        /\ err \in {"none", "image"}
        /\ \A i \in Names :
              outcome[i] \notin {"open_error", "save_error", "panic"})
          => /\ result = "ok"
             /\ \A i \in Others : outcome[i] \in {"skipped", "written"}

C2_Witness ==
    /\ pc = "done" /\ Aligning /\ result = "ok"
    /\ \E i, j \in Others :
          /\ outcome[i] = "skipped" /\ FaceCount(i) = 0
          /\ outcome[j] = "skipped" /\ FaceCount(j) > 1

\* C3: a successful aligning run with a one-face reference leaves an
\* unmodified copy of the reference image in the output directory, in
\* Transform and in Stabilize.
C3_ReferenceIsCopied ==
    (pc = "done" /\ result = "ok" /\ Aligning /\ origin # None)
        => out_files[base] = CopyFile

\* C4: in the transform stage an image that cannot be opened, or whose
\* result cannot be saved, is only skipped: every other image is still
\* processed and the batch does not end in an error.
C4_ImageIoFailureIsSkipped ==
    (/\ pc = "done" /\ command = "Transform"
     /\ \E i \in Names : outcome[i] \in {"open_error", "save_error"}
     /\ \A i \in Names : outcome[i] # "panic")
        => /\ result = "ok"
           /\ \A i \in Others : outcome[i] # "pending"

\* the alignment of points onto target is undefined: an empty landmark set,
\* a landmark count different from the reference's, degenerate geometry
AlignmentUndefined(target, points) ==
    \/ points = << >> \/ target = << >>
    \/ Len(points) # Len(target)
    \/ Coincident(points) \/ Coincident(target)

\* C5: an image whose alignment transform is undefined is skipped and the
\* run goes on: it is never written, and the run never panics.
C5_UndefinedAlignmentIsSkipped ==
    Aligning =>
    /\ result # "panic"
    /\ \A i \in Others :
          (/\ outcome[i] # "pending" /\ Seen(i) /\ FaceCount(i) = 1
           /\ AlignmentUndefined(Unwrap(origin), Unwrap(faces[i])[1]))
              => outcome[i] \notin {"panic", "written"}

\* the sequence without its k-th element
DropAt(seq, k) == [i \in 1..(Len(seq) - 1) |-> IF i < k THEN seq[i] ELSE seq[i + 1]]

\* two Projections turn by the same angle and scale by the same ratio ts/ps
SameRotationAndScale(p, q) ==
    /\ p.theta = q.theta
    /\ p.ts.n * p.ps.d * q.ps.n * q.ts.d = q.ts.n * q.ps.d * p.ps.n * p.ts.d

\* C8: the transform that warps an image is the transform of one of the
\* four-point subsets of five anchor landmarks (one anchor dropped), and an
\* image whose candidates all fail fails with NoValidProjection, an error
\* value, not a panic.
C8_FirstValidFourPointSubset ==
    Aligning =>
    /\ \A i \in Names : outcome[i] # "panic"
    /\ \A i \in Others :
          (out_files[i].kind = "warped" /\ Len(Unwrap(origin)) = 5)
              => \E k \in 1..5 :
                    LET cand == apply_projection(DropAt(Unwrap(origin), k),
                                    DropAt(Unwrap(faces[i])[1], k))
                    IN  /\ cand # None
                        /\ SameRotationAndScale(Unwrap(out_files[i].proj),
                                                Unwrap(cand))

\* C9: an existing output file leaves its place only by being renamed to the
\* backup, before the output file is created or written; a failed rename ends
\* the command with an error and leaves the existing file as it is.
C9_BackupBeforeOverwrite ==
    [][ /\ output = "old"
            => (output' = "old" \/ (output' = "absent" /\ backup' = "old"))
        /\ (err' = "rename" /\ err # "rename")
            => (output' = "old" /\ result' = "error" /\ pc' = "done")
      ]_vars

C9_Witness == output = "created" /\ backup = "old"

\* C10: a configuration error (CNN detector without a model path, predictor
\* path not a regular file) ends the run before the output file is renamed
\* to a backup or created and before any image is read.
C10_ConfigErrorBeforeAnyWork ==
    err \in {"cnn_no_path", "predictor_not_file"}
        => /\ output \notin {"created", "written"}
           /\ backup = "absent"
           /\ \A i \in Names : faces[i] = None /\ outcome[i] = "pending"

\* C11: in every execution, no detector instance and no predictor instance
\* is being invoked by two threads at the same time
C11_NoSharedInvocation ==
    \A v \in Workers, w \in Workers :
       v # w =>
          /\ (workers[v].at = "detect" /\ workers[w].at = "detect")
                => DetectorOf(v) # DetectorOf(w)
          /\ (workers[v].at = "predict" /\ workers[w].at = "predict")
                => PredictorOf(v) # PredictorOf(w)

\* C12: once the items are collected, the run on the pool has the result,
\* the FeatureMap and the output images of the sequential run on the same
\* items with the same per-image outcomes
C12_ModesAgree ==
    p_pc = "done" =>
       /\ result = SeqRun.result
       /\ result = "ok" => features = SeqRun.features
       /\ PoolWritten = SeqRun.written

\* C13: in ExtractFeatures an image that cannot be opened or decoded makes
\* the run end in an error with no FeatureMap written; an image that was
\* opened is recorded under its name whatever the number of faces, zero or
\* several included, and never makes the run fail: a run that ends well has
\* recorded every image
C13_ExtractFailsOnlyOnBadImage ==
    command = "ExtractFeatures" =>
       /\ \A i \in Names :
             /\ outcome[i] \in {"pending", "extracted", "open_error"}
             /\ Seen(i) => outcome[i] = "extracted" /\ i \in features
             /\ outcome[i] = "open_error" => ~Seen(i) /\ i \notin features
       /\ (pc = "done" /\ \E i \in Names : outcome[i] = "open_error")
             => result = "error" /\ output # "written"
       /\ (pc = "done" /\ err = "image")
             => \E i \in Names : outcome[i] = "open_error"
       /\ (pc = "done" /\ result = "ok")
             => features = Names /\ \A i \in Names : Seen(i)

C13_Witness ==
    /\ command = "ExtractFeatures"
    /\ pc = "done"
    /\ result = "error"
    /\ output # "written"
    /\ \E i \in Names : outcome[i] = "open_error"
    /\ \E i \in features : FaceCount(i) = 0
    /\ \E i \in features : FaceCount(i) > 1

\* C14: a Features value that serde_json wrote to the feature file, compact
\* or pretty, is read back as the same value: the same base directory, the
\* same names, and for each name the same faces in the same order with the
\* same bounding box and the same landmarks in the same order
C14_RoundTrip ==
    (c_pc = "decoded" /\ c_ok = "ok") => c_decoded = Some(c_map)

C14_Witness ==
    /\ c_pc = "decoded"
    /\ c_ok = "ok"
    /\ c_decoded = Some(c_map)
    /\ \E k \in 1..Len(c_map.basedir) : c_map.basedir[k] = "dquote"
    /\ Cardinality(DOMAIN c_map.features) > 1
    /\ \E n \in DOMAIN c_map.features : Len(c_map.features[n]) > 1
    /\ \E k \in 1..Len(c_text) : c_text[k] = "nl"

\* the per-image step of Stabilize or Transform ran over all its items
\* and the run went on
PerImageStepDone == Aligning /\ pc = "done" /\ result = "ok" /\ origin # None

C16_FeatureMapIsTheWarpedImages ==
    (command = "Stabilize" /\ pc = "done" /\ result = "ok") =>
       /\ output = "written"
       /\ \A i \in Names :
             i \in features <=>
                /\ i # base
                /\ Seen(i) /\ FaceCount(i) = 1
                /\ out_files[i].kind = "warped"
       /\ base \notin features
       /\ \A i \in Others : outcome[i] = "skipped" => i \notin features

C16_Witness ==
    /\ command = "Stabilize" /\ pc = "done" /\ result = "ok"
    /\ \E i \in features : out_files[i].kind = "warped"
    /\ \E i \in Others : Seen(i) /\ FaceCount(i) # 1 /\ i \notin features
    /\ base \in Names /\ base \notin features

====
